---- MODULE Spec2Model ----
(***************************************************************************)
(* Monte Carlo pricing of a European receiver swaption under Hull-White    *)
(* (European.ipynb): parameter cell, antithetic short-rate simulation in   *)
(* a process pool, forward-rate aggregation, swap valuation in a second    *)
(* pool, the payoff estimator and the strike loop of the driver cell.      *)
(*                                                                         *)
(* Numbers.  A float is modelled as a fixed-point integer counting units   *)
(* of 1/SCALE (0.04 is 40 when SCALE is 1000), or the value NaN, which     *)
(* stands for every non-finite float (nan, inf, -inf).  Products and       *)
(* quotients round toward zero.  A time in years (T_m, tenor, the values   *)
(* of np.arange) is an exact rational kept as its numerator over TimeDen,  *)
(* so that int(months_per_year * t) is an exact floor.  Python sequences   *)
(* are 0-based, TLA+ sequences 1-based: Python's x[k] is x[k + 1] here.    *)
(***************************************************************************)
EXTENDS Integers, Sequences, FiniteSets, TLC

\* ---------------------------------------------------------------- bounds
SCALE == 1000
TimeDen == 2
MaxSimulations == 4
MaxT == 2
MaxMonthsPerYear == 2
MaxTm == 3
MaxTenor == 2
MaxSeed == 2
Processes == 2

\* ------------------------------------------------ the notebook's constants
a == 10
sigma == 10
R0 == 40
FlatYield == 40
N == 1
StrikeLo == 32
StrikeHi == 48
NumStrikes == 5

\* ------------------------------------------------------- float arithmetic
NaN == 0 - 1000000000

IsFinite(x) == x # NaN

Abs(x) == IF x < 0 THEN 0 - x ELSE x

Sign(x) == IF x < 0 THEN 0 - 1 ELSE 1

\* integer quotient rounded toward zero (Python's int() of a float quotient)
TruncDiv(x, y) == Sign(x) * Sign(y) * (Abs(x) \div Abs(y))

FAdd(x, y) == IF x = NaN \/ y = NaN THEN NaN ELSE x + y

FSub(x, y) == IF x = NaN \/ y = NaN THEN NaN ELSE x - y

FNeg(x) == IF x = NaN THEN NaN ELSE 0 - x

FMul(x, y) == IF x = NaN \/ y = NaN THEN NaN ELSE TruncDiv(x * y, SCALE)

\* a float divided by zero is inf or nan in numpy: non-finite
FDiv(x, y) == IF x = NaN \/ y = NaN \/ y = 0 THEN NaN ELSE TruncDiv(x * SCALE, y)

\* a Python int times a float
IMul(n, x) == IF x = NaN THEN NaN ELSE n * x

\* a float divided by a nonzero Python int
IDiv(x, n) == IF x = NaN THEN NaN ELSE TruncDiv(x, n)

FGt(x, y) == x # NaN /\ y # NaN /\ x > y

\* np.exp: second-order series for x >= 0, its reciprocal for x < 0
ExpPos(x) == SCALE + x + ((x * x) \div (2 * SCALE))

FExp(x) ==
    IF x = NaN THEN NaN
    ELSE IF x >= 0 THEN ExpPos(x)
    ELSE (SCALE * SCALE) \div ExpPos(0 - x)

\* np.sqrt of a float x >= 0: the largest s with s*s <= x (in units of 1/SCALE)
FSqrt(x) ==
    IF x = NaN \/ x < 0 THEN NaN
    ELSE CHOOSE s \in 0..(x + SCALE) : s * s <= x * SCALE /\ (s + 1) * (s + 1) > x * SCALE

RECURSIVE FSum(_)
FSum(s) == IF s = <<>> THEN 0 ELSE FAdd(Head(s), FSum(Tail(s)))

\* a time in years, numerator over TimeDen, as a float
TimeFix(tnum) == TruncDiv(tnum * SCALE, TimeDen)

\* int(months_per_year * t) for the time tnum / TimeDen >= 0
StepIndex(months_per_year, tnum) == (months_per_year * tnum) \div TimeDen

\* np.arange(start, stop, step) for step > 0, on numerators
ArangeLen(start, stop, step) ==
    IF stop > start THEN (stop - start + step - 1) \div step ELSE 0

Arange(start, stop, step) ==
    [j \in 1..ArangeLen(start, stop, step) |-> start + (j - 1) * step]

\* Python's x[lo:hi] for 0 <= lo, 0 <= hi: clamped to the length, never an error
Slice(x, lo, hi) ==
    LET h == IF hi > Len(x) THEN Len(x) ELSE hi
    IN  IF lo >= h THEN <<>> ELSE [k \in 1..(h - lo) |-> x[lo + k]]

\* np.linspace(lo, hi, num)[j], j = 0 .. num - 1
Linspace(lo, hi, num, j) == lo + TruncDiv((hi - lo) * j, num - 1)

fixed_rates == [j \in 1..NumStrikes |-> Linspace(StrikeLo, StrikeHi, NumStrikes, j - 1)]

\* ------------------------------------------------------------ yield curve
\* the cubic spline through flat_yields: every knot has the same yield
yield_curve(t) == FlatYield

yield_curve_derivative(t) == 0


\* ------------------------------------------------------- get_short_rates
\* The standard-normal draw for row i, column k of random_part_1 (0-based),
\* as the generator's state `sd` determines it, quantised to -2 .. 2.
Normal(sd, i, k) == (((sd * (i + 2 * k + 1) + i) % 5) - 2) * SCALE

\* np.random.normal(0, 1, size=(rows, cols)); a negative dimension is a ValueError
random_part_1(sd, rows, cols) ==
    [i \in 1..rows |-> [k \in 1..cols |-> Normal(sd, i - 1, k - 1)]]

\* random_part_2 without the sign change
random_part_2_copy(part_1) == part_1

random_part_2(part_1) ==
    [i \in 1..Len(part_1) |-> [k \in 1..Len(part_1[i]) |-> FNeg(part_1[i][k])]]

\* np.vstack
vstack(top, bottom) == top \o bottom

\* the drift of simulate_path (the theta handed in by the caller is not used)
theta(t) ==
    FAdd(FAdd(yield_curve_derivative(t), FMul(a, yield_curve(t))),
         FMul(FDiv(FMul(sigma, sigma), 2 * a),
              FSub(SCALE, FExp(FMul((0 - 2) * a, t)))))

\* the loop of simulate_path from step t on, r holding r[0 .. t-1]
RECURSIVE EulerPath(_, _, _, _, _)
EulerPath(r, t, Z, nsteps, delta) ==
    IF t >= nsteps THEN r
    ELSE LET dr == FAdd(FMul(FSub(theta(IMul(t, delta)), FMul(a, r[t])), delta),
                        FMul(FMul(sigma, FSqrt(delta)), Z[t + 1]))
         IN  EulerPath(Append(r, FAdd(r[t], dr)), t + 1, Z, nsteps, delta)

\* simulate_path for nsteps >= 1 (r[0] = r0 is an IndexError on an empty array)
simulate_path(Z, nsteps, delta, rate0) == EulerPath(<<rate0>>, 1, Z, nsteps, delta)

\* ----------------------------------------------------- get_forward_rates
start_id(mpy, t) == StepIndex(mpy, t)

finish_id(mpy, t, tau) == StepIndex(mpy, t + tau)

\* np.sum(path[start_id:finish_id] * dt)
forward_rate(path, lo, hi, delta) ==
    LET part == Slice(path, lo, hi)
    IN  FSum([k \in 1..Len(part) |-> FMul(part[k], delta)])

forward_rates_temp(path, mpy, delta, Tm, tau) ==
    LET ts == Arange(0, Tm, tau)
    IN  [j \in 1..Len(ts) |->
            forward_rate(path, start_id(mpy, ts[j]), finish_id(mpy, ts[j], tau), delta)]

get_forward_rates(sims, mpy, delta, Tm, tau, paths) ==
    [i \in 1..sims |-> forward_rates_temp(paths[i], mpy, delta, Tm, tau)]

\* ------------------------------------------- get_simulations_swap_values
\* s, t: times as floats
B(s, t) == FMul(FDiv(SCALE, a), FSub(SCALE, FExp(FMul(a, FSub(s, t)))))

A(s, t) ==
    LET P_0_t == FExp(FMul(FNeg(yield_curve(t)), t))
        P_0_s == FExp(FMul(FNeg(yield_curve(s)), s))
        term1 == FDiv(P_0_t, P_0_s)
        term2 == FMul(B(s, t), yield_curve(s))
        term3 == FMul(FMul(FDiv(FMul(sigma, sigma), 4 * a), FMul(B(s, t), B(s, t))),
                      FSub(SCALE, FExp(FMul((0 - 2) * a, s))))
    IN  FMul(term1, FExp(FSub(term2, term3)))

P(s, t, r_s) == FMul(A(s, t), FExp(FMul(FNeg(B(s, t)), r_s)))

\* the sum of V's loop over the payment dates T_0 + tenor, ..., below T_m + tenor
Annuity(t, T_0, Tm, tau, r_s) ==
    LET Ts == Arange(T_0 + tau, Tm + tau, tau)
    IN  FSum([j \in 1..Len(Ts) |-> FMul(P(TimeFix(t), TimeFix(Ts[j]), r_s), TimeFix(tau))])

\* V with the sign of the fixed leg reversed
VFlipped(mpy, t, T_0, Tm, K, tau, rates) ==
    LET r_s == rates[StepIndex(mpy, t) + 1]
        term1 == P(TimeFix(t), TimeFix(T_0), r_s)
        term2 == P(TimeFix(t), TimeFix(Tm), r_s)
        term3 == Annuity(t, T_0, Tm, tau, r_s)
    IN  IMul(0 - N, FAdd(FSub(term1, term2), FMul(K, term3)))

\* V for a valid index int(months_per_year * t) < len(rates)
V(mpy, t, T_0, Tm, K, tau, rates) ==
    LET r_s == rates[StepIndex(mpy, t) + 1]
        term1 == P(TimeFix(t), TimeFix(T_0), r_s)
        term2 == P(TimeFix(t), TimeFix(Tm), r_s)
        term3 == Annuity(t, T_0, Tm, tau, r_s)
    IN  IMul(0 - N, FSub(FSub(term1, term2), FMul(K, term3)))

\* the exercise dates tenor, 2 tenor, ... below T_m
ExerciseDates(Tm, tau) == Arange(tau, Tm, tau)

\* rates[int(months_per_year * t)] raises IndexError at or past the end
SwapEvalFails(mpy, Tm, tau, rates) ==
    \E e \in 1..ArangeLen(tau, Tm, tau) :
        StepIndex(mpy, ExerciseDates(Tm, tau)[e]) >= Len(rates)

sim_swap_eval(mpy, Tm, tau, K, rates) ==
    LET ts == ExerciseDates(Tm, tau)
    IN  [e \in 1..Len(ts) |-> V(mpy, ts[e], ts[e], Tm, K, tau, rates)]

\* --------------------------------------------------- price_european_MC
\* np.sum(forward_rates[i, :int(T_n)+1])
disc_rate(forward_row, T_n) == FSum(Slice(forward_row, 0, (T_n \div TimeDen) + 1))

Payoffs(swaps, T_n, forward_rates) ==
    [i \in 1..Len(swaps) |->
        IF FGt(swaps[i], 0)
        THEN FMul(swaps[i], FExp(FNeg(disc_rate(forward_rates[i], T_n))))
        ELSE 0]

\* the sum divided by the number of paths with a positive swap value
price_over_exercised(swaps, T_n, forward_rates) ==
    LET exercised == Cardinality({i \in 1..Len(swaps) : FGt(swaps[i], 0)})
    IN  IF exercised = 0 THEN 0
        ELSE IDiv(FSum(Payoffs(swaps, T_n, forward_rates)), exercised)

\* sum(positive_swaps) / len(swap_values), for len(swap_values) > 0
price_european_MC(swaps, T_n, forward_rates) ==
    IDiv(FSum(Payoffs(swaps, T_n, forward_rates)), Len(swaps))


\* ------------------------------------------------------ multiprocess.Pool
\* results stored in the order they arrive: the first slot still empty
CollectInArrivalOrder(value, i, result) ==
    LET free == {j \in DOMAIN value : value[j] = <<>>}
    IN  IF free = {} THEN [value EXCEPT ![i] = result]
        ELSE [value EXCEPT ![CHOOSE j \in free : \A k \in free : j <= k] = result]

\* Pool.map keeps one slot per task and stores each result at its task's index
Collect(value, i, result) == [value EXCEPT ![i] = result]

\* a map that returns once every task has been handed to a process
MapCompleteStarted(status) == \A i \in DOMAIN status : status[i] # "queued"

\* Pool.map returns when every task has delivered its result
MapComplete(status) == \A i \in DOMAIN status : status[i] = "done"

Queued(status) == {i \in DOMAIN status : status[i] = "queued"}

Running(status) == {i \in DOMAIN status : status[i] = "running"}

\* the task queue is first-in first-out: an idle process takes the lowest index
NextTask(status) == CHOOSE i \in Queued(status) : \A j \in Queued(status) : i <= j

CanStart(status) == Queued(status) # {} /\ Cardinality(Running(status)) < Processes

\* range(simulations) as 1-based indices
Tasks(sims) == 1..sims

\* ------------------------------------------------------------------ state
VARIABLES
    pc,                      \* the driver's position
    error,                   \* the exception that ended the run, or "none"
    simulations, T, months_per_year, T_m, tenor, r0,   \* the parameter cell
    seed,                    \* the state of numpy's random generator
    steps, dt,               \* computed by the parameter cell
    random_z,                \* the shock matrix of get_short_rates
    sr_status, sr_value,     \* the pool of get_short_rates: task states, result slots
    normal_rates,            \* the array get_short_rates returned
    forward_rate_normal,     \* the array get_forward_rates returned
    strike_idx,              \* position in fixed_rates (1-based)
    sv_status, sv_value,     \* the pool of get_simulations_swap_values
    simulations_swap_values, \* the array get_simulations_swap_values returned
    swap_values,             \* its column [:,0]
    positive_swaps, disc_rates, sim_value   \* price_european_MC

vars == <<pc, error, simulations, T, months_per_year, T_m, tenor, r0, seed, steps, dt,
          random_z, sr_status, sr_value, normal_rates, forward_rate_normal, strike_idx,
          sv_status, sv_value, simulations_swap_values, swap_values,
          positive_swaps, disc_rates, sim_value>>

inputs == <<simulations, T, months_per_year, T_m, tenor, r0, seed>>

shortVars == <<random_z, sr_status, sr_value, normal_rates>>

swapVars == <<sv_status, sv_value, simulations_swap_values, swap_values>>

priceVars == <<positive_swaps, disc_rates, sim_value>>

strike_rate == fixed_rates[strike_idx]

Init ==
    /\ pc = "parameters"
    /\ error = "none"
    /\ simulations \in (0 - 2)..MaxSimulations
    /\ T \in 0..MaxT
    /\ months_per_year \in 1..MaxMonthsPerYear
    /\ T_m \in 1..MaxTm
    /\ tenor \in 1..MaxTenor
    /\ r0 \in {R0, NaN}
    /\ seed \in 1..MaxSeed
    /\ steps = 0
    /\ dt = 0
    /\ random_z = <<>>
    /\ sr_status = <<>>
    /\ sr_value = <<>>
    /\ normal_rates = <<>>
    /\ forward_rate_normal = <<>>
    /\ strike_idx = 1
    /\ sv_status = <<>>
    /\ sv_value = <<>>
    /\ simulations_swap_values = <<>>
    /\ swap_values = <<>>
    /\ positive_swaps = <<>>
    /\ disc_rates = <<>>
    /\ sim_value = 0

Raise(name) ==
    /\ pc' = "error"
    /\ error' = name

\* ---------------------------------------------------------- parameter cell
ParameterCellZeroDivision ==
    /\ pc = "parameters"
    /\ T * months_per_year = 0
    /\ Raise("ZeroDivisionError")
    /\ UNCHANGED <<inputs, steps, dt, shortVars, forward_rate_normal, strike_idx,
                   swapVars, priceVars>>

ParameterCell ==
    /\ pc = "parameters"
    /\ T * months_per_year # 0
    /\ steps' = T * months_per_year
    /\ dt' = IDiv(T * SCALE, T * months_per_year)
    /\ pc' = "get_short_rates"
    /\ UNCHANGED <<error, inputs, shortVars, forward_rate_normal, strike_idx,
                   swapVars, priceVars>>

\* ------------------------------------------------------- get_short_rates
\* np.random.normal with a negative row count
GetShortRatesValueError ==
    /\ pc = "get_short_rates"
    /\ TruncDiv(simulations, 2) < 0
    /\ Raise("ValueError")
    /\ UNCHANGED <<inputs, steps, dt, shortVars, forward_rate_normal, strike_idx,
                   swapVars, priceVars>>

ShockMatrix ==
    LET part_1 == random_part_1(seed, TruncDiv(simulations, 2), steps)
    IN  vstack(part_1, random_part_2(part_1))

\* random_z[i,:] for a row i the matrix does not have
GetShortRatesIndexError ==
    /\ pc = "get_short_rates"
    /\ TruncDiv(simulations, 2) >= 0
    /\ simulations > Len(ShockMatrix)
    /\ Raise("IndexError")
    /\ UNCHANGED <<inputs, steps, dt, shortVars, forward_rate_normal, strike_idx,
                   swapVars, priceVars>>

GetShortRatesDispatch ==
    /\ pc = "get_short_rates"
    /\ TruncDiv(simulations, 2) >= 0
    /\ simulations <= Len(ShockMatrix)
    /\ random_z' = ShockMatrix
    /\ sr_status' = [i \in Tasks(simulations) |-> "queued"]
    /\ sr_value' = [i \in Tasks(simulations) |-> <<>>]
    /\ pc' = "short_pool"
    /\ UNCHANGED <<error, inputs, steps, dt, normal_rates, forward_rate_normal,
                   strike_idx, swapVars, priceVars>>

ShortWorkerStart ==
    /\ pc = "short_pool"
    /\ CanStart(sr_status)
    /\ sr_status' = [sr_status EXCEPT ![NextTask(sr_status)] = "running"]
    /\ UNCHANGED <<pc, error, inputs, steps, dt, random_z, sr_value, normal_rates,
                   forward_rate_normal, strike_idx, swapVars, priceVars>>

ShortWorkerFinish ==
    /\ pc = "short_pool"
    /\ \E i \in Running(sr_status) :
        /\ sr_status' = [sr_status EXCEPT ![i] = "done"]
        /\ sr_value' = Collect(sr_value, i, simulate_path(random_z[i], steps, dt, r0))
    /\ UNCHANGED <<pc, error, inputs, steps, dt, random_z, normal_rates,
                   forward_rate_normal, strike_idx, swapVars, priceVars>>

GetShortRatesReturn ==
    /\ pc = "short_pool"
    /\ MapComplete(sr_status)
    /\ normal_rates' = sr_value
    /\ pc' = "get_forward_rates"
    /\ UNCHANGED <<error, inputs, steps, dt, random_z, sr_status, sr_value,
                   forward_rate_normal, strike_idx, swapVars, priceVars>>

\* ----------------------------------------------------- get_forward_rates
GetForwardRates ==
    /\ pc = "get_forward_rates"
    /\ forward_rate_normal' =
           get_forward_rates(simulations, months_per_year, dt, T_m, tenor, normal_rates)
    /\ strike_idx' = 1
    /\ pc' = "swap_values"
    /\ UNCHANGED <<error, inputs, steps, dt, shortVars, swapVars, priceVars>>

\* ------------------------------------------- get_simulations_swap_values
SwapDispatch ==
    /\ pc = "swap_values"
    /\ sv_status' = [i \in Tasks(simulations) |-> "queued"]
    /\ sv_value' = [i \in Tasks(simulations) |-> <<>>]
    /\ pc' = "swap_pool"
    /\ UNCHANGED <<error, inputs, steps, dt, shortVars, forward_rate_normal, strike_idx,
                   simulations_swap_values, swap_values, priceVars>>

SwapWorkerStart ==
    /\ pc = "swap_pool"
    /\ CanStart(sv_status)
    /\ sv_status' = [sv_status EXCEPT ![NextTask(sv_status)] = "running"]
    /\ UNCHANGED <<pc, error, inputs, steps, dt, shortVars, forward_rate_normal,
                   strike_idx, sv_value, simulations_swap_values, swap_values, priceVars>>

SwapWorkerFinish ==
    /\ pc = "swap_pool"
    /\ \E i \in Running(sv_status) :
        /\ ~SwapEvalFails(months_per_year, T_m, tenor, normal_rates[i])
        /\ sv_status' = [sv_status EXCEPT ![i] = "done"]
        /\ sv_value' = Collect(sv_value, i,
               sim_swap_eval(months_per_year, T_m, tenor, strike_rate, normal_rates[i]))
    /\ UNCHANGED <<pc, error, inputs, steps, dt, shortVars, forward_rate_normal,
                   strike_idx, simulations_swap_values, swap_values, priceVars>>

\* sim_swap_eval raises in the worker
SwapWorkerFail ==
    /\ pc = "swap_pool"
    /\ \E i \in Running(sv_status) :
        /\ SwapEvalFails(months_per_year, T_m, tenor, normal_rates[i])
        /\ sv_status' = [sv_status EXCEPT ![i] = "failed"]
    /\ UNCHANGED <<pc, error, inputs, steps, dt, shortVars, forward_rate_normal,
                   strike_idx, sv_value, simulations_swap_values, swap_values, priceVars>>

\* Pool.map re-raises a worker's exception in the caller
SwapMapRaise ==
    /\ pc = "swap_pool"
    /\ \E i \in DOMAIN sv_status : sv_status[i] = "failed"
    /\ Raise("IndexError")
    /\ UNCHANGED <<inputs, steps, dt, shortVars, forward_rate_normal, strike_idx,
                   swapVars, priceVars>>

\* the array has a column 0: at least one row, and rows that are not empty
HasColumn0(matrix) == Len(matrix) > 0 /\ \A i \in 1..Len(matrix) : Len(matrix[i]) > 0

SwapReturn ==
    /\ pc = "swap_pool"
    /\ MapComplete(sv_status)
    /\ HasColumn0(sv_value)
    /\ simulations_swap_values' = sv_value
    /\ swap_values' = [i \in 1..Len(sv_value) |-> sv_value[i][1]]
    /\ pc' = "price"
    /\ UNCHANGED <<error, inputs, steps, dt, shortVars, forward_rate_normal, strike_idx,
                   sv_status, sv_value, priceVars>>

\* [:,0] of an array without a column 0
SwapColumnIndexError ==
    /\ pc = "swap_pool"
    /\ MapComplete(sv_status)
    /\ ~HasColumn0(sv_value)
    /\ simulations_swap_values' = sv_value
    /\ Raise("IndexError")
    /\ UNCHANGED <<inputs, steps, dt, shortVars, forward_rate_normal, strike_idx,
                   sv_status, sv_value, swap_values, priceVars>>

\* --------------------------------------------------- price_european_MC
PriceEuropeanMC ==
    /\ pc = "price"
    /\ positive_swaps' = Payoffs(swap_values, tenor, forward_rate_normal)
    /\ disc_rates' = [i \in {j \in 1..Len(swap_values) : FGt(swap_values[j], 0)} |->
                         disc_rate(forward_rate_normal[i], tenor)]
    /\ sim_value' = price_european_MC(swap_values, tenor, forward_rate_normal)
    /\ pc' = "report"
    /\ UNCHANGED <<error, inputs, steps, dt, shortVars, forward_rate_normal, strike_idx,
                   swapVars>>

\* the benchmark value and the prints, then the next strike
Report ==
    /\ pc = "report"
    /\ IF strike_idx < NumStrikes
       THEN strike_idx' = strike_idx + 1 /\ pc' = "swap_values"
       ELSE strike_idx' = strike_idx /\ pc' = "done"
    /\ UNCHANGED <<error, inputs, steps, dt, shortVars, forward_rate_normal, swapVars,
                   priceVars>>

Next ==
    \/ ParameterCellZeroDivision
    \/ ParameterCell
    \/ GetShortRatesValueError
    \/ GetShortRatesIndexError
    \/ GetShortRatesDispatch
    \/ ShortWorkerStart
    \/ ShortWorkerFinish
    \/ GetShortRatesReturn
    \/ GetForwardRates
    \/ SwapDispatch
    \/ SwapWorkerStart
    \/ SwapWorkerFinish
    \/ SwapWorkerFail
    \/ SwapMapRaise
    \/ SwapReturn
    \/ SwapColumnIndexError
    \/ PriceEuropeanMC
    \/ Report

Spec == Init /\ [][Next]_vars


\* ================================================================ claims
\* the driver is past get_short_rates and no exception has ended the run
PastShortRates == pc \in {"get_forward_rates", "swap_values", "swap_pool", "price", "report", "done"}

\* the driver is past get_forward_rates
PastForwardRates == pc \in {"swap_values", "swap_pool", "price", "report", "done"}

\* the swap value of path i at exercise date e for the fixed rate K
SwapValueAt(K, i, e) == sim_swap_eval(months_per_year, T_m, tenor, K, normal_rates[i])[e]

\* C1 as stated: with everything but the fixed rate held fixed, a larger fixed
\* rate gives a strictly smaller swap value at every exercise date of every path.
C1_DecreasesInK ==
    pc = "price" =>
        \A j \in 1..NumStrikes : \A i \in 1..Len(simulations_swap_values) :
            \A e \in 1..Len(simulations_swap_values[i]) :
                (fixed_rates[j] > strike_rate /\ IsFinite(simulations_swap_values[i][e]))
                    => SwapValueAt(fixed_rates[j], i, e) < simulations_swap_values[i][e]

\* C1 amended: with everything but the fixed rate held fixed and finite swap
\* values, the swap value never decreases when the fixed rate increases, and it
\* strictly increases from one of the driver's fixed rates to a larger one (and
\* strictly decreases to a smaller one), at every exercise date of every path.
C1_IncreasesInK ==
    pc = "price" =>
        \A i \in 1..Len(simulations_swap_values) :
            \A e \in 1..Len(simulations_swap_values[i]) :
                IsFinite(simulations_swap_values[i][e]) =>
                    /\ \A K \in StrikeLo..StrikeHi :
                        /\ K > strike_rate
                            => SwapValueAt(K, i, e) >= simulations_swap_values[i][e]
                        /\ K < strike_rate
                            => SwapValueAt(K, i, e) <= simulations_swap_values[i][e]
                    /\ \A j \in 1..NumStrikes :
                        /\ fixed_rates[j] > strike_rate
                            => SwapValueAt(fixed_rates[j], i, e) > simulations_swap_values[i][e]
                        /\ fixed_rates[j] < strike_rate
                            => SwapValueAt(fixed_rates[j], i, e) < simulations_swap_values[i][e]

C1_Witness ==
    /\ pc = "price"
    /\ strike_idx < NumStrikes
    /\ \E i \in 1..Len(simulations_swap_values) :
        /\ IsFinite(simulations_swap_values[i][1])
        /\ SwapValueAt(fixed_rates[strike_idx + 1], i, 1) > simulations_swap_values[i][1]

\* C2 as stated: an odd path count ends get_short_rates with
\* InvalidEnsembleSizeError, with no task dispatched and no array returned.
C2_OddRaisesInvalidEnsembleSize ==
    (simulations % 2 = 1 /\ pc \notin {"parameters", "get_short_rates"}
                         /\ error # "ZeroDivisionError")
        => /\ error = "InvalidEnsembleSizeError"
           /\ sr_status = <<>>
           /\ normal_rates = <<>>

\* C3: for an even path count the shock matrix has one row per path, and the row
\* of path i + N/2 is the negation of the row of path i at every step, the two
\* summing to zero.
C3_Antithetic ==
    (simulations % 2 = 0 /\ (pc = "short_pool" \/ PastShortRates)) =>
        /\ Len(random_z) = simulations
        /\ \A i \in 1..(simulations \div 2) : \A k \in 1..steps :
            /\ random_z[i + (simulations \div 2)][k] = 0 - random_z[i][k]
            /\ random_z[i + (simulations \div 2)][k] + random_z[i][k] = 0

C3_Witness ==
    /\ pc = "short_pool"
    /\ simulations % 2 = 0
    /\ simulations >= 2
    /\ \E k \in 1..steps : random_z[1][k] # 0 /\ random_z[1 + (simulations \div 2)][k] # 0

\* C4 as stated: price_european_MC returns an estimate only when no path holds a
\* non-finite short rate and no swap value is non-finite.
C4_NonFiniteAborts ==
    pc \in {"report", "done"} =>
        /\ \A i \in 1..Len(normal_rates) : \A k \in 1..Len(normal_rates[i]) :
               IsFinite(normal_rates[i][k])
        /\ \A i \in 1..Len(swap_values) : IsFinite(swap_values[i])

\* C5: forward-rate aggregation and swap valuation run only once every task of
\* the short-rate pool is done and its full path is in the returned array.
C5_StageBarrier ==
    PastShortRates =>
        /\ Len(normal_rates) = Cardinality(Tasks(simulations))
        /\ \A i \in Tasks(simulations) :
            /\ sr_status[i] = "done"
            /\ Len(normal_rates[i]) = steps

C5_Witness ==
    /\ pc = "get_forward_rates"
    /\ simulations >= 2
    /\ \A i \in Tasks(simulations) : sr_status[i] = "done" /\ Len(normal_rates[i]) = steps

\* C6: whatever order the workers finish in, row i of the short-rate array is the
\* path of shock row i and row i of the swap-value array is the valuation of path i.
C6_OrderIndependent ==
    /\ pc = "get_forward_rates" =>
        \A i \in Tasks(simulations) :
            normal_rates[i] = simulate_path(random_z[i], steps, dt, r0)
    /\ pc = "price" =>
        \A i \in Tasks(simulations) :
            simulations_swap_values[i] =
                sim_swap_eval(months_per_year, T_m, tenor, strike_rate, normal_rates[i])

\* task 2 delivered its path while task 1 was still running
C6_Witness ==
    /\ pc = "short_pool"
    /\ simulations >= 2
    /\ sr_status[1] = "running"
    /\ sr_status[2] = "done"
    /\ sr_value[2] = simulate_path(random_z[2], steps, dt, r0)
    /\ sr_value[2] # simulate_path(random_z[1], steps, dt, r0)

\* C7 as stated: for every tenor the discount exponent of a path is the
\* forward-rate exponent of period 0 alone.
C7_DiscountIsPeriodZero ==
    pc = "report" =>
        \A i \in DOMAIN disc_rates : disc_rates[i] = forward_rate_normal[i][1]

\* C8: the estimate is the sum over all paths of the discounted positive part of
\* the swap value, divided by the number of all paths; a path whose swap value
\* is not positive adds 0 and still counts, and the estimate is not negative.
C8_MeanOfPositivePart ==
    pc = "report" =>
        /\ Len(positive_swaps) = simulations
        /\ Len(swap_values) = simulations
        /\ \A i \in 1..simulations :
            IF swap_values[i] # NaN /\ swap_values[i] > 0
            THEN /\ i \in DOMAIN disc_rates
                 /\ positive_swaps[i] = FMul(swap_values[i], FExp(FNeg(disc_rates[i])))
            ELSE positive_swaps[i] = 0
        /\ sim_value = TruncDiv(FSum(positive_swaps), simulations)
        /\ sim_value >= 0

C8_Witness ==
    /\ pc = "report"
    /\ sim_value > 0
    /\ \E i \in 1..simulations : swap_values[i] <= 0 /\ positive_swaps[i] = 0
    /\ \E i \in 1..simulations : swap_values[i] > 0 /\ positive_swaps[i] > 0

\* the steps of path i that lie in period j (1-based) by the claim's rule
PeriodLo(j) == StepIndex(months_per_year, (j - 1) * tenor)

PeriodHi(j) == StepIndex(months_per_year, j * tenor)

\* C9 as stated: one exponent per period (T_m / tenor of them when tenor divides
\* T_m); period j is the sum of r[k] dt over exactly the steps from
\* floor(j tenor stepsPerYear) up to floor((j+1) tenor stepsPerYear), and every
\* step below floor(T_m stepsPerYear) lies in exactly one period.
C9_PeriodSums ==
    PastForwardRates =>
        \A i \in Tasks(simulations) :
            /\ T_m % tenor = 0 => Len(forward_rate_normal[i]) = T_m \div tenor
            /\ \A j \in 1..Len(forward_rate_normal[i]) :
                /\ PeriodHi(j) <= Len(normal_rates[i])
                /\ forward_rate_normal[i][j] =
                       FSum([k \in 1..(PeriodHi(j) - PeriodLo(j)) |->
                                FMul(normal_rates[i][PeriodLo(j) + k], dt)])
            /\ \A k \in 0..(StepIndex(months_per_year, T_m) - 1) :
                Cardinality({j \in 1..Len(forward_rate_normal[i]) :
                                PeriodLo(j) <= k /\ k < PeriodHi(j)}) = 1

\* C10 as stated: when get_forward_rates has returned, every period of every
\* path ends at or before the end of the path and was summed over all of its
\* finish_id - start_id steps, as every index V reads must lie below the end.
C10_HorizonRespected ==
    PastForwardRates =>
        \A i \in Tasks(simulations) : \A j \in 1..ArangeLen(0, T_m, tenor) :
            LET t == Arange(0, T_m, tenor)[j]
                lo == start_id(months_per_year, t)
                hi == finish_id(months_per_year, t, tenor)
            IN  /\ hi <= Len(normal_rates[i])
                /\ Len(Slice(normal_rates[i], lo, hi)) = hi - lo

====
